---- MODULE Spec2Model ----
(***************************************************************************)
(* A state-machine model of the clinical-rounds viewer front end:          *)
(*   - module load of auth/authConfig.ts (environment validation) and the  *)
(*     MSAL logger callback,                                               *)
(*   - the App shell, the login/logout flow of AuthProvider and the        *)
(*     LoginComponent,                                                     *)
(*   - the Patient view (handleSearch / handleSwitchPatient) and           *)
(*     fetchPatient,                                                       *)
(*   - the streaming consumer startWritingTask,                            *)
(*   - the utility functions getAuthToken and checkUserGroupMembership,    *)
(*   - the PatientSOAP view (round normalisation, role filter and the      *)
(*     scroll-spy of its tabs),                                            *)
(*   - the Redux slice "patient" of store/patientSlice.ts.                 *)
(* Text is modelled as a sequence of one-character strings wherever the    *)
(* code inspects its contents (trim, startsWith, the all-digit test).      *)
(***************************************************************************)
EXTENDS Integers, Sequences, FiniteSets, TLC

VARIABLES
    env,          \* import.meta.env: variable name -> value (Undefined when unset)
    PROD,         \* import.meta.env.PROD
    boot,         \* "loading" | "crashed" | "running": module load of main.tsx
    console,      \* the calls of the MSAL logger callback and what each wrote
    accounts,     \* number of signed-in accounts in the MSAL cache
    inProgress,   \* MSAL InteractionStatus: "none" | "login" | "logout"
    configError,  \* LoginComponent state
    patientData,  \* Patient state
    searchId,     \* Patient state (text of the MRN input)
    loading,      \* Patient state
    error,        \* Patient state
    showSearch,   \* Patient state
    fp,           \* the fetchPatient call in flight, if any
    httpLog,      \* every HTTP request issued so far, in order
    wt,           \* the startWritingTask invocation
    calls,        \* addMessage / createArticle / addToArticle calls, in order
    soap,         \* the PatientSOAP component
    util,         \* the last call of a utility function of store/index.ts
    patient,      \* the state of the Redux slice "patient"
    scroll        \* the scroll-spy of the PatientSOAP component

vars == <<env, PROD, boot, console, accounts, inProgress, configError,
          patientData, searchId, loading, error, showSearch, fp, httpLog,
          wt, calls, soap, util, patient, scroll>>

envVars == <<env, PROD, boot, console>>
authVars == <<accounts, inProgress, configError>>
patientVars == <<patientData, searchId, loading, error, showSearch, fp>>
writerVars == <<wt, calls>>

(***************************************************************************)
(* Bounds of the model.                                                    *)
(***************************************************************************)
MaxConsole == 3     \* logger calls per run
MaxRequests == 2    \* HTTP requests per run
MaxRetries == 2     \* 401 answers the server gives to one writer task
MaxBody == 4        \* tokens in a streamed response body

(***************************************************************************)
(* Text.                                                                   *)
(***************************************************************************)
Undefined == <<"undefined">>   \* the JavaScript value undefined
Null == <<"null">>             \* the JavaScript value null

Str_empty == <<>>
Str_blank == <<" ">>
Str_id == <<"i", "d">>
Str_http == <<"h", "t", "t", "p", ":", "/", "/", "h">>
Str_https == <<"h", "t", "t", "p", "s", ":", "/", "/", "h">>
Str_mrn == <<"7">>
Str_mrnPadded == <<" ", "7", " ">>

IsWhite(c) == c \in {" ", "\t", "\r", "\n"}

RECURSIVE TrimStart(_)
TrimStart(s) ==
    IF s = <<>> THEN <<>>
    ELSE IF IsWhite(Head(s)) THEN TrimStart(Tail(s)) ELSE s

RECURSIVE TrimEnd(_)
TrimEnd(s) ==
    IF s = <<>> THEN <<>>
    ELSE IF IsWhite(s[Len(s)]) THEN TrimEnd(SubSeq(s, 1, Len(s) - 1)) ELSE s

\* String.prototype.trim
Trim(s) == TrimEnd(TrimStart(s))

\* String.prototype.startsWith
StartsWith(s, p) == Len(s) >= Len(p) /\ SubSeq(s, 1, Len(p)) = p

\* JavaScript truthiness of an optional string
Falsy(v) == v = Undefined \/ v = Null \/ v = <<>>

(***************************************************************************)
(* auth/authConfig.ts: environment validation at module load.              *)
(***************************************************************************)
AzureVars == {"VITE_AZURE_CLIENT_ID", "VITE_AZURE_AUTHORITY", "VITE_AZURE_REDIRECT_URI"}
OtherVars == {"VITE_API_URL", "VITE_CLINICAL_STAFF_GROUP_ID", "VITE_ADMIN_GROUP_ID"}
RequiredVars == AzureVars \cup OtherVars

EnvValues == {Undefined, Str_empty, Str_blank, Str_id, Str_http, Str_https}

\* the entries of `required` that validateRequiredEnvVars reports missing
Missing(e) == {k \in AzureVars : Falsy(e[k]) \/ Trim(e[k]) = <<>>}

\* validateRequiredEnvVars: "throw" or "ok"
validateRequiredEnvVars(e) ==
    IF Missing(e) # {} THEN "throw"
    ELSE IF ~StartsWith(e["VITE_AZURE_REDIRECT_URI"], SubSeq(Str_http, 1, 7))
            /\ ~StartsWith(e["VITE_AZURE_REDIRECT_URI"], SubSeq(Str_https, 1, 8))
         THEN "throw"
         ELSE "ok"

\* LoginComponent's mount effect: the configError it sets
LoginMountError(e) ==
    IF Falsy(e["VITE_AZURE_CLIENT_ID"]) \/ Falsy(e["VITE_AZURE_AUTHORITY"])
       \/ Falsy(e["VITE_AZURE_REDIRECT_URI"])
    THEN "Azure AD configuration is incomplete. Please check environment variables."
    ELSE ""

(***************************************************************************)
(* auth/authConfig.ts: msalConfig.system.loggerOptions.loggerCallback.     *)
(* The result is the sequence of console methods the callback calls.       *)
(***************************************************************************)
LogLevels == 0 .. 4    \* MSAL LogLevel: Error, Warning, Info, Verbose, Trace

ConsoleMethod(level) ==
    CASE level = 0 -> "error"
      [] level = 1 -> "warn"
      [] level = 2 -> "info"
      [] level = 3 -> "debug"
      [] OTHER -> "none"

\* a logger without the containsPii guard
loggerCallback_LogsPii(level, containsPii, prod) ==
    LET logLevel == IF prod THEN 1 ELSE 3
    IN IF level <= logLevel /\ ConsoleMethod(level) # "none"
       THEN <<ConsoleMethod(level)>>
       ELSE <<>>

loggerCallback(level, containsPii, prod) ==
    IF containsPii THEN <<>>
    ELSE LET logLevel == IF prod THEN 1 ELSE 3
         IN IF level <= logLevel /\ ConsoleMethod(level) # "none"
            THEN <<ConsoleMethod(level)>>
            ELSE <<>>

(***************************************************************************)
(* store/index.ts: getAuthToken.  `silent` and `popup` are what            *)
(* acquireTokenSilent and acquireTokenPopup answer: a token or "FAIL".     *)
(* The result names the token (or Null) and the MSAL calls attempted.      *)
(***************************************************************************)
Tokens == {<<"t1">>, <<"t2">>}
TokenOutcomes == Tokens \cup {<<"FAIL">>}

\* a getAuthToken whose popup attempt is not inside a try block of its own
getAuthToken_PopupUncaught(msalInstance, nAccounts, silent, popup) ==
    IF ~msalInstance \/ nAccounts = 0
    THEN [token |-> Null, attempts |-> <<>>, settled |-> "resolved"]
    ELSE IF silent \in Tokens
         THEN [token |-> silent, attempts |-> <<"acquireTokenSilent">>,
               settled |-> "resolved"]
         ELSE [token |-> IF popup \in Tokens THEN popup ELSE Undefined,
               attempts |-> <<"acquireTokenSilent", "acquireTokenPopup">>,
               settled |-> IF popup \in Tokens THEN "resolved" ELSE "rejected"]

\* settled: "resolved" or "rejected", how the promise ends; the outer catch
\* runs when acquireTokenSilent rejects, the inner one when the popup does
getAuthToken(msalInstance, nAccounts, silent, popup) ==
    IF ~msalInstance
    THEN [token |-> Null, attempts |-> <<>>, settled |-> "resolved"]
    ELSE IF nAccounts = 0
    THEN [token |-> Null, attempts |-> <<>>, settled |-> "resolved"]
    ELSE IF silent \in Tokens
         THEN [token |-> silent, attempts |-> <<"acquireTokenSilent">>,
               settled |-> "resolved"]
         ELSE IF popup \in Tokens
              THEN [token |-> popup,
                    attempts |-> <<"acquireTokenSilent", "acquireTokenPopup">>,
                    settled |-> "resolved"]
              ELSE [token |-> Null,
                    attempts |-> <<"acquireTokenSilent", "acquireTokenPopup">>,
                    settled |-> "resolved"]

\* `Bearer ${token}`
Bearer(token) == <<"Bearer">> \o token

NoHeader == <<>>    \* no Authorization header on the request

Request(method, api, authorization, token) ==
    [method |-> method, api |-> api, Authorization |-> authorization,
     token |-> token]   \* token: what getAuthToken returned for this request

(***************************************************************************)
(* App.tsx: what the App shell renders, given useIsAuthenticated().        *)
(***************************************************************************)
App_PatientOutsideTemplate(isAuthenticated) ==
    (IF ~isAuthenticated THEN {"LoginComponent"} ELSE {"UserProfile"})
        \cup {"Patient"}

App(isAuthenticated) ==
    (IF ~isAuthenticated THEN {"LoginComponent"} ELSE {})
        \cup (IF isAuthenticated THEN {"UserProfile", "Patient"} ELSE {})

isAuthenticated == accounts > 0

\* isLoading of the AuthContext
isLoading == inProgress \in {"login", "logout"}

Rendered == IF boot = "running" THEN App(isAuthenticated) ELSE {}

(***************************************************************************)
(* main.tsx / authConfig.ts: module load.                                  *)
(***************************************************************************)
Boot ==
    /\ boot = "loading"
    /\ boot' = IF validateRequiredEnvVars(env) = "throw" THEN "crashed" ELSE "running"
    /\ configError' = IF validateRequiredEnvVars(env) = "ok" /\ accounts = 0
                      THEN LoginMountError(env) ELSE ""
    /\ UNCHANGED <<env, PROD, console, accounts, inProgress, patientVars,
                   httpLog, writerVars, soap, util, patient, scroll>>

\* the MSAL library reports a log line through loggerCallback
LoggerCallback ==
    /\ boot = "running"
    /\ Len(console) < MaxConsole
    /\ \E level \in LogLevels, containsPii \in BOOLEAN :
          console' = Append(console,
                            [level |-> level, containsPii |-> containsPii,
                             wrote |-> loggerCallback(level, containsPii, PROD)])
    /\ UNCHANGED <<env, PROD, boot, authVars, patientVars, httpLog, writerVars, soap, util, patient, scroll>>

(***************************************************************************)
(* LoginComponent.tsx / AuthProvider.tsx: login and logout.                *)
(***************************************************************************)
\* pc: where the call is; live: whether the Patient that made it is still
\* mounted; token, sent, thrown, outcome: what the last call got from
\* getAuthToken, whether it issued its request, the error it threw, how it ended
IdleCall == [pc |-> "idle", live |-> FALSE, id |-> <<>>, acct |-> 0,
             token |-> Undefined, sent |-> FALSE, thrown |-> <<>>,
             outcome |-> "none"]

\* LoginComponent.handleLogin -> AuthProvider.login -> instance.loginPopup
HandleLogin ==
    /\ "LoginComponent" \in Rendered
    /\ ~(isLoading \/ configError # "")       \* the button is enabled
    /\ inProgress' = "login"
    /\ UNCHANGED <<envVars, accounts, configError, patientVars, httpLog,
                   writerVars, soap, util, patient, scroll>>

\* AuthProvider.login's try/catch swallows a rejection of loginPopup
LoginPopupSettles ==
    /\ inProgress = "login"
    /\ \E ok \in BOOLEAN :
          /\ accounts' = IF ok THEN 1 ELSE accounts
          /\ configError' = IF ok THEN "" ELSE configError
    /\ inProgress' = "none"
    /\ UNCHANGED <<envVars, patientVars, httpLog, writerVars, soap, util, patient, scroll>>

\* UserProfile's button -> AuthProvider.logout -> instance.logoutPopup
HandleLogout ==
    /\ "UserProfile" \in Rendered
    /\ ~isLoading
    /\ inProgress' = "logout"
    /\ UNCHANGED <<envVars, accounts, configError, patientVars, httpLog,
                   writerVars, soap, util, patient, scroll>>

\* On success the account is removed: Patient unmounts (its state is lost, a
\* fetchPatient call in flight goes on without it) and LoginComponent mounts.
LogoutPopupSettles ==
    /\ inProgress = "logout"
    /\ inProgress' = "none"
    /\ \E ok \in BOOLEAN :
          IF ok
          THEN /\ accounts' = 0
               /\ configError' = LoginMountError(env)
               /\ patientData' = Null
               /\ searchId' = <<>>
               /\ loading' = FALSE
               /\ error' = ""
               /\ showSearch' = TRUE
               /\ fp' = [fp EXCEPT !.live = FALSE]
          ELSE UNCHANGED <<accounts, configError, patientVars>>
    /\ UNCHANGED <<envVars, httpLog, writerVars, soap, util, patient, scroll>>

(***************************************************************************)
(* components/patient.tsx and fetchPatient (store/index.ts).               *)
(* JSON values of the response body: a patient object, the same wrapped as *)
(* { patient: ... }, the literal null and the literal 0.                   *)
(***************************************************************************)
JPatient == <<"object", "patient">>
JWrapped == <<"object", "wrapper">>
JZero == <<"0">>
Payloads == {JPatient, JWrapped, Null, JZero}
SyntaxError == <<"SyntaxError">>

Truthy(v) == v \notin {Undefined, Null, JZero, <<>>}

\* response.patient: "TypeError" when response is null
PatientProp(response) ==
    IF response = Null THEN <<"TypeError">>
    ELSE IF response = JWrapped THEN JPatient ELSE Undefined

\* Error messages, as sequences of words; includes() looks for a word.
Msg_NoToken == <<"Authentication", "token", "not", "available.", "Please", "log", "in", "again.">>
Msg_AuthFailed == <<"Authentication", "failed.", "Please", "log", "in", "again.">>
Msg_Network == <<"Failed", "to", "fetch">>
Msg_Json == <<"Unexpected", "token">>
Msg_NullProp == <<"Cannot", "read", "properties", "of", "null">>

StatusText(status) ==
    CASE status = 200 -> <<"OK">>
      [] status = 401 -> <<"Unauthorized">>
      [] status = 404 -> <<"Not", "Found">>
      [] status = 407 -> <<"Proxy", "Authentication", "Required">>
      [] OTHER -> <<"Internal", "Server", "Error">>

StatusWord(status) ==
    CASE status = 200 -> "200"
      [] status = 401 -> "401"
      [] status = 404 -> "404"
      [] status = 407 -> "407"
      [] OTHER -> "500"

\* `Failed to fetch patient: ${response.status} ${response.statusText}`
Msg_Status(status) ==
    <<"Failed", "to", "fetch", "patient:", StatusWord(status)>> \o StatusText(status)

Includes(msg, word) == \E i \in 1 .. Len(msg) : msg[i] = word

Statuses == {200, 401, 404, 407, 500}
ResponseOk(status) == status >= 200 /\ status <= 299

SearchInputs == {<<>>, Str_blank, Str_mrn, Str_mrnPadded}

\* the input's onChange
SetSearchId ==
    /\ "Patient" \in Rendered
    /\ showSearch
    /\ \E v \in SearchInputs : searchId' = v
    /\ searchId' # searchId
    /\ UNCHANGED <<envVars, authVars, patientData, loading, error, showSearch,
                   fp, httpLog, writerVars, soap, util, patient, scroll>>

\* the message handleSearch's catch block shows for an error
CatchMessage_Silent(msg) == ""

CatchMessage(msg) ==
    IF Includes(msg, "Authentication")
    THEN "Authentication failed. Please refresh the page and log in again."
    ELSE IF Includes(msg, "401")
         THEN "Unauthorized access. Please check your permissions."
         ELSE "Patient not found or error fetching patient data."

\* a handleSearch without its finally block
SearchFails_NoFinally(call, msg) ==
    /\ fp' = [call EXCEPT !.pc = "idle", !.outcome = "failed", !.thrown = msg]
    /\ IF fp.live
       THEN /\ patientData' = Null
            /\ error' = CatchMessage(msg)
            /\ UNCHANGED <<searchId, showSearch, loading>>
       ELSE UNCHANGED <<patientData, searchId, loading, error, showSearch>>

\* handleSearch's catch and finally blocks, for a call that threw `msg`;
\* the state of an unmounted Patient is not updated
SearchFails(call, msg) ==
    /\ fp' = [call EXCEPT !.pc = "idle", !.outcome = "failed", !.thrown = msg]
    /\ IF fp.live
       THEN /\ patientData' = Null
            /\ error' = CatchMessage(msg)
            /\ loading' = FALSE
            /\ UNCHANGED <<searchId, showSearch>>
       ELSE UNCHANGED <<patientData, searchId, loading, error, showSearch>>

\* a handleSearch that tests and passes the MRN as typed
HandleSearch_Untrimmed ==
    /\ "Patient" \in Rendered
    /\ showSearch /\ ~loading
    /\ fp.pc = "idle"
    /\ Len(httpLog) < MaxRequests
    /\ patientData' = Null
    /\ IF searchId = <<>>
       THEN /\ error' = "Please enter an MRN."
            /\ fp' = [IdleCall EXCEPT !.outcome = "blank", !.live = TRUE]
            /\ UNCHANGED loading
       ELSE /\ error' = ""
            /\ loading' = TRUE
            /\ fp' = [IdleCall EXCEPT !.pc = "token", !.live = TRUE,
                                       !.id = searchId, !.acct = accounts,
                                       !.outcome = "running"]
    /\ UNCHANGED <<envVars, authVars, searchId, showSearch, httpLog, writerVars, soap, util, patient, scroll>>

\* a search form whose button stays enabled while loading
HandleSearch_WhileLoading ==
    /\ "Patient" \in Rendered
    /\ showSearch
    /\ Len(httpLog) < MaxRequests
    /\ patientData' = Null
    /\ IF Trim(searchId) = <<>>
       THEN /\ error' = "Please enter an MRN."
            /\ fp' = [IdleCall EXCEPT !.outcome = "blank", !.live = TRUE]
            /\ UNCHANGED loading
       ELSE /\ error' = ""
            /\ loading' = TRUE
            /\ fp' = [IdleCall EXCEPT !.pc = "token", !.live = TRUE,
                                       !.id = Trim(searchId), !.acct = accounts,
                                       !.outcome = "running"]
    /\ UNCHANGED <<envVars, authVars, searchId, showSearch, httpLog, writerVars, soap, util, patient, scroll>>

\* handleSearch up to its first await: fetchPatient has called getAuthToken,
\* which has read the accounts and awaits acquireTokenSilent
HandleSearch ==
    /\ "Patient" \in Rendered
    /\ showSearch /\ ~loading           \* the form is shown, its button enabled
    /\ fp.pc = "idle"
    /\ Len(httpLog) < MaxRequests
    /\ patientData' = Null
    /\ IF Trim(searchId) = <<>>
       THEN /\ error' = "Please enter an MRN."
            /\ fp' = [IdleCall EXCEPT !.outcome = "blank", !.live = TRUE]
            /\ UNCHANGED loading
       ELSE /\ error' = ""
            /\ loading' = TRUE
            /\ fp' = [IdleCall EXCEPT !.pc = "token", !.live = TRUE,
                                       !.id = Trim(searchId), !.acct = accounts,
                                       !.outcome = "running"]
    /\ UNCHANGED <<envVars, authVars, searchId, showSearch, httpLog, writerVars, soap, util, patient, scroll>>

\* fetchPatient once getAuthToken has settled: throw without a token, else
\* issue the GET with the Authorization header
FetchPatientSend_NoTokenCheck(token) ==
    /\ httpLog' = Append(httpLog,
                     Request("GET", "patient",
                             IF token # Null THEN Bearer(token) ELSE NoHeader, token))
    /\ fp' = [fp EXCEPT !.pc = "http", !.token = token, !.sent = TRUE]
    /\ UNCHANGED <<patientData, searchId, loading, error, showSearch>>

FetchPatientSend(token) ==
    IF token # Null
    THEN /\ httpLog' = Append(httpLog, Request("GET", "patient", Bearer(token), token))
         /\ fp' = [fp EXCEPT !.pc = "http", !.token = token, !.sent = TRUE]
         /\ UNCHANGED <<patientData, searchId, loading, error, showSearch>>
    ELSE /\ SearchFails([fp EXCEPT !.token = token], Msg_NoToken)
         /\ UNCHANGED httpLog

FetchPatientToken ==
    /\ fp.pc = "token"
    /\ \E silent \in TokenOutcomes, popup \in TokenOutcomes :
          FetchPatientSend(getAuthToken(TRUE, fp.acct, silent, popup).token)
    /\ UNCHANGED <<envVars, authVars, writerVars, soap, util, patient, scroll>>

\* the fetch settles: a network error, or a response with a status
FetchPatientResponse ==
    /\ fp.pc = "http"
    /\ \/ SearchFails(fp, Msg_Network)
       \/ \E status \in Statuses :
             IF status = 401 THEN SearchFails(fp, Msg_AuthFailed)
             ELSE IF ~ResponseOk(status) THEN SearchFails(fp, Msg_Status(status))
             ELSE /\ fp' = [fp EXCEPT !.pc = "json"]
                  /\ UNCHANGED <<patientData, searchId, loading, error, showSearch>>
    /\ UNCHANGED <<envVars, authVars, httpLog, writerVars, soap, util, patient, scroll>>

\* response.json() settles; handleSearch's success path
FetchPatientJson ==
    /\ fp.pc = "json"
    /\ \E body \in Payloads \cup {SyntaxError} :
          IF body = SyntaxError THEN SearchFails(fp, Msg_Json)
          ELSE IF PatientProp(body) = <<"TypeError">> THEN SearchFails(fp, Msg_NullProp)
          ELSE /\ fp' = [fp EXCEPT !.pc = "idle", !.outcome = "ok"]
               /\ IF fp.live
                  THEN /\ patientData' = IF Truthy(PatientProp(body))
                                         THEN PatientProp(body) ELSE body
                       /\ showSearch' = FALSE
                       /\ loading' = FALSE
                       /\ UNCHANGED <<searchId, error>>
                  ELSE UNCHANGED <<patientData, searchId, loading, error, showSearch>>
    /\ UNCHANGED <<envVars, authVars, httpLog, writerVars, soap, util, patient, scroll>>

\* PatientId's Switch Patient button
HandleSwitchPatient ==
    /\ "Patient" \in Rendered
    /\ Truthy(patientData)              \* PatientId is rendered
    /\ patientData' = Null
    /\ searchId' = <<>>
    /\ error' = ""
    /\ showSearch' = TRUE
    /\ UNCHANGED <<envVars, authVars, loading, fp, httpLog, writerVars, soap, util, patient, scroll>>

(***************************************************************************)
(* store/index.ts: startWritingTask.  A response body is a stream of       *)
(* tokens: a newline, a space, "M" (a whole message of type "message"),    *)
(* "P" (a whole partial message with text), and "W1", "W2" (the two halves *)
(* of a writer message with data.start).                                   *)
(* The body reaches the reader in chunks cut at token boundaries.          *)
(***************************************************************************)
msalInstance == TRUE     \* main.tsx sets window.msalInstance before rendering

StreamTokens == {"\n", " ", "M", "P", "W1", "W2"}

Msg_Plain == [fn |-> "addMessage", type |-> "message", arg |-> ""]

Msg_Partial == [fn |-> "addMessage", type |-> "partial", arg |-> "text"]
Msg_Writer == [fn |-> "addMessage", type |-> "writer", arg |-> "start"]
Msg_ApiFailed ==
    [fn |-> "addMessage", type |-> "error",
     arg |-> "API call failed. Please check your connection and try again."]
Msg_ReauthFailed ==
    [fn |-> "addMessage", type |-> "error",
     arg |-> "Authentication failed. Please refresh the page and try again."]
Call_createArticle == [fn |-> "createArticle", type |-> "", arg |-> ""]
Call_addToArticle == [fn |-> "addToArticle", type |-> "", arg |-> "text"]
Throw == [fn |-> "throw", type |-> "SyntaxError", arg |-> ""]

\* text.split("\n")
RECURSIVE Split(_)
Split(text) ==
    IF \A i \in 1 .. Len(text) : text[i] # "\n" THEN <<text>>
    ELSE LET i == CHOOSE j \in 1 .. Len(text) :
                     text[j] = "\n" /\ \A k \in 1 .. j - 1 : text[k] # "\n"
         IN <<SubSeq(text, 1, i - 1)>> \o Split(SubSeq(text, i + 1, Len(text)))

RECURSIVE RemoveWhite(_)
RemoveWhite(s) ==
    IF s = <<>> THEN <<>>
    ELSE IF IsWhite(Head(s)) THEN RemoveWhite(Tail(s))
         ELSE <<Head(s)>> \o RemoveWhite(Tail(s))

\* JSON.parse: the message, or Throw; white space between JSON tokens is allowed
JSONparse(part) ==
    IF RemoveWhite(part) = <<"M">> THEN Msg_Plain
    ELSE IF RemoveWhite(part) = <<"P">> THEN Msg_Partial
    ELSE IF RemoveWhite(part) = <<"W1", "W2">> THEN Msg_Writer
    ELSE Throw

\* the calls made for one parsed message
MessageCalls(message) ==
    <<message>>
      \o (IF message.type = "writer" THEN <<Call_createArticle>>
          ELSE IF message.type = "partial" THEN <<Call_addToArticle>>
          ELSE <<>>)

\* the loop over the parts of one chunk: the calls made, and whether
\* JSON.parse threw
RECURSIVE ProcessParts(_, _)
\* a loop that skips a part JSON.parse rejects and goes on with the next
ProcessParts_SkipsBadPart(parts, done) ==
    IF parts = <<>> THEN [calls |-> done, threw |-> FALSE]
    ELSE LET part == Trim(Head(parts))
             r == ProcessParts(Tail(parts),
                               IF part = <<>> \/ JSONparse(part) = Throw THEN done
                               ELSE done \o MessageCalls(JSONparse(part)))
         IN [calls |-> r.calls,
             threw |-> r.threw \/ (part # <<>> /\ JSONparse(part) = Throw)]

ProcessParts_Reversed(parts, done) ==
    IF parts = <<>> THEN [calls |-> done, threw |-> FALSE]
    ELSE LET part == Trim(parts[Len(parts)])
             rest == SubSeq(parts, 1, Len(parts) - 1)
         IN IF part = <<>> THEN ProcessParts(rest, done)
            ELSE IF JSONparse(part) = Throw THEN [calls |-> done, threw |-> TRUE]
            ELSE ProcessParts(rest, done \o MessageCalls(JSONparse(part)))

ProcessParts(parts, done) ==
    IF parts = <<>> THEN [calls |-> done, threw |-> FALSE]
    ELSE LET part == Trim(Head(parts))
         IN IF part = <<>> THEN ProcessParts(Tail(parts), done)
            ELSE IF JSONparse(part) = Throw THEN [calls |-> done, threw |-> TRUE]
            ELSE ProcessParts(Tail(parts), done \o MessageCalls(JSONparse(part)))

RECURSIVE SeqsOfLen(_, _)
SeqsOfLen(S, n) ==
    IF n = 0 THEN {<<>>}
    ELSE {<<x>> \o s : x \in S, s \in SeqsOfLen(S, n - 1)}

\* promise: the promise startWritingTask returned, "none" before the call
IdleTask == [pc |-> "idle", acct |-> 0, auth |-> NoHeader, token |-> Null,
             retries |-> 0, hasBody |-> FALSE, left |-> 0, received |-> <<>>,
             promise |-> "none"]

\* startWritingTask up to `await getAuthToken()`
StartWritingTask ==
    /\ boot = "running"
    /\ wt.pc = "idle"
    /\ wt' = [wt EXCEPT !.pc = "token", !.acct = accounts, !.promise = "pending"]
    /\ UNCHANGED <<envVars, authVars, patientVars, httpLog, calls, soap, util, patient, scroll>>

\* the headers are built and callApi issues the first request; callApi() is
\* not awaited, so startWritingTask returns and its promise resolves
WriterSend(token) ==
    LET auth == IF token # Null THEN Bearer(token) ELSE NoHeader
    IN /\ httpLog' = Append(httpLog, Request("POST", "writer", auth, token))
       /\ wt' = [wt EXCEPT !.pc = "http", !.token = token, !.auth = auth,
                           !.promise = "resolved"]

WriterToken ==
    /\ wt.pc = "token"
    /\ \E silent \in TokenOutcomes, popup \in TokenOutcomes :
          WriterSend(getAuthToken(msalInstance, wt.acct, silent, popup).token)
    /\ UNCHANGED <<envVars, authVars, patientVars, calls, soap, util, patient, scroll>>

\* response.body?.getReader() and the start of the read loop
StartReading(w) == [w EXCEPT !.pc = IF w.hasBody THEN "reading" ELSE "done"]

\* the fetch of callApi settles: a network error, or a response with a status
\* and a body of at most `cap` tokens (or no body at all)
WriterResponse(cap) ==
    /\ wt.pc = "http"
    /\ \/ /\ wt' = [wt EXCEPT !.pc = "done"]
          /\ calls' = Append(calls, Msg_ApiFailed)
       \/ \E status \in Statuses, hasBody \in BOOLEAN, left \in 0 .. cap :
             /\ hasBody \/ left = 0
             /\ status = 401 => wt.retries < MaxRetries
             /\ wt' = IF status = 401 /\ msalInstance
                      THEN [wt EXCEPT !.pc = "relogin", !.hasBody = hasBody,
                                      !.left = left]
                      ELSE StartReading([wt EXCEPT !.hasBody = hasBody, !.left = left])
             /\ UNCHANGED calls
    /\ UNCHANGED <<envVars, authVars, patientVars, httpLog, soap, util, patient, scroll>>

\* msalInstance.loginPopup() settles; on success getAuthToken is called
WriterLoginPopup ==
    /\ wt.pc = "relogin"
    /\ \E ok \in BOOLEAN :
          IF ok
          THEN /\ accounts' = 1
               /\ configError' = IF accounts = 0 THEN "" ELSE configError
               /\ wt' = [wt EXCEPT !.pc = "retoken", !.acct = 1]
               /\ UNCHANGED calls
          ELSE /\ calls' = Append(calls, Msg_ReauthFailed)
               /\ wt' = [wt EXCEPT !.pc = "done"]
               /\ UNCHANGED <<accounts, configError>>
    /\ UNCHANGED <<envVars, inProgress, patientVars, httpLog, soap, util, patient, scroll>>

\* with a new token the request is issued again with it; without one the
\* 401 response is read like any other
WriterRetry_KeepsOldHeader(newToken) ==
    IF newToken # Null
    THEN /\ httpLog' = Append(httpLog, Request("POST", "writer", wt.auth, newToken))
         /\ wt' = [wt EXCEPT !.pc = "http", !.token = newToken,
                             !.retries = wt.retries + 1]
    ELSE /\ wt' = StartReading(wt)
         /\ UNCHANGED httpLog

\* a retry that does not look at the new token
WriterRetry_WithoutToken(newToken) ==
    /\ httpLog' = Append(httpLog,
                     Request("POST", "writer",
                             IF newToken # Null THEN Bearer(newToken) ELSE wt.auth,
                             newToken))
    /\ wt' = [wt EXCEPT !.pc = "http", !.token = newToken,
                        !.retries = wt.retries + 1]

WriterRetry(newToken) ==
    IF newToken # Null
    THEN /\ httpLog' = Append(httpLog,
                          Request("POST", "writer", Bearer(newToken), newToken))
         /\ wt' = [wt EXCEPT !.pc = "http", !.token = newToken,
                             !.auth = Bearer(newToken), !.retries = wt.retries + 1]
    ELSE /\ wt' = StartReading(wt)
         /\ UNCHANGED httpLog

WriterNewToken ==
    /\ wt.pc = "retoken"
    /\ \E silent \in TokenOutcomes, popup \in TokenOutcomes :
          WriterRetry(getAuthToken(msalInstance, wt.acct, silent, popup).token)
    /\ UNCHANGED <<envVars, authVars, patientVars, calls, soap, util, patient, scroll>>

\* reader.read() settles: an error, the end of the stream, or the next
\* chunk, whose parts are processed before anything else runs
WriterRead ==
    /\ wt.pc = "reading"
    /\ \/ /\ wt' = [wt EXCEPT !.pc = "done"]
          /\ calls' = Append(calls, Msg_ApiFailed)
       \/ /\ wt.left = 0
          /\ wt' = [wt EXCEPT !.pc = "done"]
          /\ UNCHANGED calls
       \/ \E n \in 1 .. wt.left :
             \E chunk \in SeqsOfLen(StreamTokens, n) :
                LET r == ProcessParts(Split(chunk), <<>>)
                IN /\ calls' = calls \o r.calls
                               \o (IF r.threw THEN <<Msg_ApiFailed>> ELSE <<>>)
                   /\ wt' = [wt EXCEPT !.pc = IF r.threw THEN "done" ELSE "reading",
                                       !.left = wt.left - n,
                                       !.received = Append(wt.received, chunk)]
    /\ UNCHANGED <<envVars, authVars, patientVars, httpLog, soap, util, patient, scroll>>

(***************************************************************************)
(* components/PatientSOAP.tsx.  JavaScript values are tagged records; an   *)
(* object is a function from its keys to values.                           *)
(***************************************************************************)
VUndef == [kind |-> "undefined"]
VNull == [kind |-> "null"]
VStr(s) == [kind |-> "string", s |-> s]
VObj(o) == [kind |-> "object", obj |-> o]
VArr(a) == [kind |-> "array", items |-> a]

TruthyV(v) == v.kind \in {"object", "array"} \/ (v.kind = "string" /\ v.s # "")

Get(o, k) == IF k \in DOMAIN o THEN o[k] ELSE VUndef

\* property access v[k] on a non-null value
Field(v, k) == IF v.kind = "object" THEN Get(v.obj, k) ELSE VUndef

soapKeys == {"subjective", "objective", "assessment", "plan"}

\* the characters of the keys the model uses
KeyChars(k) ==
    CASE k = "1" -> <<"1">>
      [] k = "2" -> <<"2">>
      [] k = "1a" -> <<"1", "a">>
      [] OTHER -> <<"s">>

\* Number(k) of an all-digit key
KeyNumber(k) == IF k = "1" THEN 1 ELSE 2

\* /^\d+$/.test(k)
AllDigits(k) ==
    /\ Len(KeyChars(k)) > 0
    /\ \A i \in 1 .. Len(KeyChars(k)) :
          KeyChars(k)[i] \in {"0", "1", "2", "3", "4", "5", "6", "7", "8", "9"}

EmptyMap == [k \in {} |-> <<>>]

isSingle_IgnoresDigitKeys(o) ==
    \E k \in soapKeys : Get(o, k).kind # "undefined"

isSingle(o) ==
    /\ \E k \in soapKeys : Get(o, k).kind # "undefined"
    /\ ~\E k \in DOMAIN o : AllDigits(k)

\* the useMemo that builds normalizedRounds: round key -> array
normalizedRounds(rounds) ==
    IF ~TruthyV(rounds) THEN EmptyMap
    ELSE IF isSingle(rounds.obj) THEN [k \in {"1"} |-> <<rounds>>]
    ELSE [k \in {j \in DOMAIN rounds.obj : TruthyV(rounds.obj[j])} |->
            IF rounds.obj[k].kind = "array" THEN rounds.obj[k].items
            ELSE <<rounds.obj[k]>>]

\* roundKeys[0]: the keys are sorted by Number(a) - Number(b); with a key that
\* is not a number the comparator is inconsistent and the order is up to the
\* JavaScript engine
FirstKeys(n) ==
    IF \A k \in DOMAIN n : AllDigits(k)
    THEN {k \in DOMAIN n : \A j \in DOMAIN n : KeyNumber(k) <= KeyNumber(j)}
    ELSE DOMAIN n

currentEntries(n, selectedRound) ==
    IF selectedRound # "" /\ selectedRound \in DOMAIN n THEN n[selectedRound] ELSE <<>>

allRoles(entries) ==
    {Field(entries[i], "role").s :
        i \in {j \in 1 .. Len(entries) : TruthyV(Field(entries[j], "role"))}}

\* entries.filter(e => e.role ? selectedRoles.has(e.role) : true)
RECURSIVE FilterByRole(_, _)
FilterByRole(entries, selectedRoles) ==
    IF entries = <<>> THEN <<>>
    ELSE (IF (IF TruthyV(Field(Head(entries), "role"))
              THEN Field(Head(entries), "role").s \in selectedRoles ELSE TRUE)
          THEN <<Head(entries)>> ELSE <<>>)
           \o FilterByRole(Tail(entries), selectedRoles)

\* the entries of the map() that do not return null: those with content
RECURSIVE WithContent(_, _)
WithContent(entries, sectionKey) ==
    IF entries = <<>> THEN <<>>
    ELSE (IF TruthyV(Field(Head(entries), sectionKey))
          THEN <<Head(entries)>> ELSE <<>>)
           \o WithContent(Tail(entries), sectionKey)

\* the entries renderSectionContent keeps after the role filter
FilteredEntries_NoFilter(entries, roles, selectedRoles) == entries

FilteredEntries(entries, roles, selectedRoles) ==
    IF Cardinality(roles) > 0 /\ Cardinality(selectedRoles) > 0
    THEN FilterByRole(entries, selectedRoles)
    ELSE entries

\* renderSectionContent: the entries shown in the section, in order
renderSectionContent(sectionKey, entries, roles, selectedRoles) ==
    WithContent(FilteredEntries(entries, roles, selectedRoles), sectionKey)

E_phys == [role |-> VStr("physician"), subjective |-> VStr("s"), plan |-> VStr("p")]
E_nurse == [role |-> VStr("nurse"), subjective |-> VStr("s")]
E_anon == [subjective |-> VStr("s"), plan |-> VStr("")]

RoundValues ==
    {VNull, VStr(""), VStr("text"), VObj(E_nurse), VArr(<<>>),
     VArr(<<VObj(E_anon)>>), VArr(<<VObj(E_phys), VObj(E_nurse), VObj(E_anon)>>)}

RoundKeyChoices == {"1", "2", "1a", "subjective"}

\* the objects the backend may send as patient.rounds
RoundsObjects ==
    UNION {[ks \cup ps -> RoundValues] :
             ks \in SUBSET RoundKeyChoices, ps \in {{}, {"plan"}}}

RoundsInputs ==
    {VNull} \cup {VObj(o) : o \in {x \in RoundsObjects :
                      "plan" \in DOMAIN x => x["plan"] = VStr("text")}}

UnmountedSoap == [rounds |-> VNull, phase |-> "unmounted", normalized |-> EmptyMap,
                  selectedRound |-> "", selectedRoles |-> {}]

soapRoles == allRoles(currentEntries(soap.normalized, soap.selectedRound))

\* the component returns null when there is nothing to show
soapShown ==
    /\ soap.phase # "unmounted"
    /\ TruthyV(soap.rounds)
    /\ DOMAIN soap.normalized # {}

\* first render: the state initialisers
SoapMount ==
    /\ soap.phase = "unmounted"
    /\ LET n == normalizedRounds(soap.rounds)
       IN \E first \in (IF DOMAIN n = {} THEN {""} ELSE FirstKeys(n)) :
             soap' = [soap EXCEPT !.phase = "rendered", !.normalized = n,
                                  !.selectedRound = first, !.selectedRoles = {}]
    /\ UNCHANGED <<envVars, authVars, patientVars, httpLog, writerVars, util, patient, scroll>>

\* the effects after a render: keep selectedRound valid, reset the roles
SoapEffects ==
    /\ soap.phase = "rendered"
    /\ \E first \in (IF DOMAIN soap.normalized = {} THEN {""}
                     ELSE FirstKeys(soap.normalized)) :
          soap' = [soap EXCEPT
                     !.phase = "settled",
                     !.selectedRound =
                         IF soap.selectedRound = ""
                            \/ soap.selectedRound \notin DOMAIN soap.normalized
                         THEN first ELSE soap.selectedRound,
                     !.selectedRoles = soapRoles]
    /\ UNCHANGED <<envVars, authVars, patientVars, httpLog, writerVars, util, patient, scroll>>

\* a round button
SoapSelectRound ==
    /\ soapShown /\ soap.phase = "settled"
    /\ Cardinality(DOMAIN soap.normalized) > 1
    /\ \E rk \in DOMAIN soap.normalized :
          /\ rk # soap.selectedRound
          /\ soap' = [soap EXCEPT !.selectedRound = rk, !.phase = "rendered"]
    /\ UNCHANGED <<envVars, authVars, patientVars, httpLog, writerVars, util, patient, scroll>>

toggleRole(prev, role, roles) ==
    LET next == IF role \in prev THEN prev \ {role} ELSE prev \cup {role}
    IN IF Cardinality(next) = 0 THEN roles ELSE next

\* a role button
SoapToggleRole ==
    /\ soapShown /\ soap.phase = "settled"
    /\ \E role \in soapRoles :
          soap' = [soap EXCEPT !.selectedRoles = toggleRole(@, role, soapRoles)]
    /\ UNCHANGED <<envVars, authVars, patientVars, httpLog, writerVars, util, patient, scroll>>

\* allRoles[0]: the first role in sort() order
FirstRole(roles) == IF "nurse" \in roles THEN "nurse" ELSE "physician"

\* the All button
SoapToggleAllRoles ==
    /\ soapShown /\ soap.phase = "settled"
    /\ soapRoles # {}
    /\ soap' = [soap EXCEPT !.selectedRoles =
                   IF Cardinality(soap.selectedRoles) = Cardinality(soapRoles)
                   THEN {FirstRole(soapRoles)}
                   ELSE soapRoles]
    /\ UNCHANGED <<envVars, authVars, patientVars, httpLog, writerVars, util, patient, scroll>>

(***************************************************************************)
(* components/PatientSOAP.tsx: the scroll-spy.  The four sections lie one  *)
(* below the other in the scroll container; lengths are in pixels.         *)
(* scroll holds the heights of the sections, the keys whose ref holds the  *)
(* section's element, the container's scrollTop, the activeTab state and   *)
(* closure, the activeTab the registered scroll listener was created with  *)
(* ("none" while no listener is registered).                               *)
(***************************************************************************)
tabs == <<"subjective", "objective", "assessment", "plan">>

ContainerHeight == 384      \* the container's clientHeight: class h-96
MinSectionHeight == 200     \* class min-h-[200px] of a section
TallSection == 400          \* the height of a section with more content
BottomMargin == 10          \* scrollHeight - 10 in the bottom test
Step == 16                  \* distance between the scroll positions followed

MathMax(a, b) == IF a >= b THEN a ELSE b
MathMin(a, b) == IF a <= b THEN a ELSE b

\* the distance of section i's top from the top of the content
RECURSIVE OffsetTop(_, _)
OffsetTop(heights, i) ==
    IF i = 1 THEN 0 ELSE OffsetTop(heights, i - 1) + heights[tabs[i - 1]]

\* container.scrollHeight
scrollHeight(heights) == OffsetTop(heights, Len(tabs)) + heights[tabs[Len(tabs)]]

\* rect.top - containerRect.top of section i
elementTop(heights, i, scrollTop) == OffsetTop(heights, i) - scrollTop

visibleHeight(heights, i, scrollTop) ==
    LET top == elementTop(heights, i, scrollTop)
        visibleTop == MathMax(0, 0 - top)
        visibleBottom == MathMin(heights[tabs[i]], ContainerHeight - top)
    IN MathMax(0, visibleBottom - visibleTop)

\* tabs.forEach from tab i on; max is maxVisibility as a fraction num / den,
\* and visibilityRatio > maxVisibility is compared without rounding
RECURSIVE MostVisible(_, _, _, _, _, _)
\* a loop in which a later section wins a tie
MostVisible_LaterWins(heights, refs, scrollTop, i, most, max) ==
    IF i > Len(tabs) THEN most
    ELSE LET visible == visibleHeight(heights, i, scrollTop)
             height == heights[tabs[i]]
         IN IF tabs[i] \in refs /\ visible > 0 /\ visible * max.den >= max.num * height
            THEN MostVisible(heights, refs, scrollTop, i + 1, tabs[i],
                             [num |-> visible, den |-> height])
            ELSE MostVisible(heights, refs, scrollTop, i + 1, most, max)

MostVisible(heights, refs, scrollTop, i, most, max) ==
    IF i > Len(tabs) THEN most
    ELSE LET visible == visibleHeight(heights, i, scrollTop)
             height == heights[tabs[i]]
         IN IF tabs[i] \in refs /\ visible * max.den > max.num * height
            THEN MostVisible(heights, refs, scrollTop, i + 1, tabs[i],
                             [num |-> visible, den |-> height])
            ELSE MostVisible(heights, refs, scrollTop, i + 1, most, max)

\* handleScroll with the container scrolled to scrollTop: the activeTab
\* state after the call
handleScroll(sc, scrollTop) ==
    IF scrollTop + ContainerHeight >= scrollHeight(sc.heights) - BottomMargin
    THEN "plan"
    ELSE LET mostVisibleSection ==
                 MostVisible(sc.heights, sc.refs, scrollTop, 1, "subjective",
                             [num |-> 0, den |-> 1])
         IN IF mostVisibleSection # sc.closure THEN mostVisibleSection
            ELSE sc.activeTab

RestingScroll ==
    [heights |-> [k \in soapKeys |-> MinSectionHeight], refs |-> soapKeys,
     scrollTop |-> 0, activeTab |-> "subjective", closure |-> "none"]

\* the scroll positions followed: every Step pixels, and the two positions
\* on either side of the bottom margin
ScrollStops(heights) ==
    LET last == scrollHeight(heights) - ContainerHeight
    IN {t \in 0 .. last : t % Step = 0 \/ last - t \in {BottomMargin, BottomMargin + 1}}

\* the effect after a render: the listener is registered anew, with the
\* activeTab of that render; without the container there is no listener
ScrollEffects ==
    /\ soapShown
    /\ scroll.closure # scroll.activeTab
    /\ scroll' = [scroll EXCEPT !.closure = scroll.activeTab]
    /\ UNCHANGED <<envVars, authVars, patientVars, httpLog, writerVars, soap, util, patient>>

\* a scroll event of the container, handled by the listener of the last
\* render (the handlers of the component run once its effects have run)
ScrollEvent ==
    /\ soapShown
    /\ scroll.closure = scroll.activeTab
    /\ \E scrollTop \in ScrollStops(scroll.heights) \ {scroll.scrollTop} :
          scroll' = [scroll EXCEPT !.scrollTop = scrollTop,
                                   !.activeTab = handleScroll(scroll, scrollTop)]
    /\ UNCHANGED <<envVars, authVars, patientVars, httpLog, writerVars, soap, util, patient>>

(***************************************************************************)
(* store/index.ts: the utility functions, called on their own.  util holds *)
(* the last call: the function, what it met (whether window.msalInstance   *)
(* exists, the accounts, what MSAL answered) and how the promise it        *)
(* returned settled.                                                       *)
(***************************************************************************)
\* The body of the Graph memberOf response, as response.json() gives it:
\* kind "syntaxError" (json() rejects), "null", "noValue" (an object without
\* value), "notArray" (value is a string) or "list" (value is an array, of
\* the groups' ids; Undefined for a group without id, Null for a null entry).
NoBody == [kind |-> "none", groups |-> <<>>]
GroupIds == {Str_id, Str_http, Str_empty, Undefined, Null}
MaxGroups == 2      \* groups in a memberOf response
GroupLists == UNION {[1 .. n -> GroupIds] : n \in 0 .. MaxGroups}
GraphBodies ==
    {[kind |-> k, groups |-> <<>>] : k \in {"syntaxError", "null", "noValue", "notArray"}}
        \cup {[kind |-> "list", groups |-> g] : g \in GroupLists}

NetworkError == 0   \* stands for a fetch that rejects, among the statuses
GraphStatuses == {NetworkError, 200, 403}

IdleUtil ==
    [fn |-> "none", instance |-> TRUE, nAccounts |-> 0, silent |-> <<"FAIL">>,
     popup |-> <<"FAIL">>, attempts |-> <<>>, token |-> Undefined,
     status |-> NetworkError, body |-> NoBody, sent |-> FALSE,
     settled |-> "pending", result |-> Undefined]

\* one utility call is followed per run
GetAuthTokenCall ==
    /\ util.fn = "none"
    /\ \E instance \in BOOLEAN, nAccounts \in {0, 1},
          silent \in TokenOutcomes, popup \in TokenOutcomes :
           LET r == getAuthToken(instance, nAccounts, silent, popup)
           IN util' = [IdleUtil EXCEPT !.fn = "getAuthToken",
                          !.instance = instance, !.nAccounts = nAccounts,
                          !.silent = silent, !.popup = popup,
                          !.attempts = r.attempts, !.token = r.token,
                          !.settled = r.settled, !.result = r.token]
    /\ UNCHANGED <<envVars, authVars, patientVars, httpLog, writerVars, soap, patient, scroll>>

GroupVars == {"VITE_CLINICAL_STAFF_GROUP_ID", "VITE_ADMIN_GROUP_ID"}

\* the authorized groups without the filter
authorizedGroups_Unfiltered(e) == {e[k] : k \in GroupVars}

\* [...].filter(id => id && id.length > 0)
authorizedGroups(e) == {e[k] : k \in {v \in GroupVars : ~Falsy(e[v])}}

\* userGroups.some(group => authorizedGroups.includes(group.id)), entry by
\* entry: "TypeError" at a null entry that no matching entry precedes
RECURSIVE SomeAuthorized(_, _)
SomeAuthorized(groups, authorized) ==
    IF groups = <<>> THEN "false"
    ELSE IF Head(groups) = Null THEN "TypeError"
    ELSE IF Head(groups) \in authorized THEN "true"
    ELSE SomeAuthorized(Tail(groups), authorized)

\* checkUserGroupMembership with the token getAuthToken gave it; every throw
\* inside the try block ends in the catch, which returns false
checkUserGroupMembership(token, status, body, e) ==
    IF Falsy(token)
    THEN [result |-> FALSE, sent |-> FALSE, settled |-> "resolved"]
    ELSE IF status = NetworkError                      \* fetch rejects
    THEN [result |-> FALSE, sent |-> TRUE, settled |-> "resolved"]
    ELSE IF ~ResponseOk(status)
    THEN [result |-> FALSE, sent |-> TRUE, settled |-> "resolved"]
    ELSE IF body.kind \in {"syntaxError", "null", "notArray"}    \* a throw
    THEN [result |-> FALSE, sent |-> TRUE, settled |-> "resolved"]
    ELSE LET userGroups == IF body.kind = "list" THEN body.groups ELSE <<>>
         IN [result |-> SomeAuthorized(userGroups, authorizedGroups(e)) = "true",
             sent |-> TRUE, settled |-> "resolved"]

CheckUserGroupMembershipCall ==
    /\ util.fn = "none"
    /\ \E nAccounts \in {0, 1}, silent \in TokenOutcomes, popup \in TokenOutcomes,
          status \in GraphStatuses, body \in GraphBodies :
           LET t == getAuthToken(msalInstance, nAccounts, silent, popup)
               r == checkUserGroupMembership(t.token, status, body, env)
           IN /\ util' = [IdleUtil EXCEPT !.fn = "checkUserGroupMembership",
                             !.nAccounts = nAccounts, !.silent = silent,
                             !.popup = popup, !.attempts = t.attempts,
                             !.token = t.token, !.status = status,
                             !.body = body, !.sent = r.sent,
                             !.settled = r.settled, !.result = r.result]
              /\ httpLog' = IF r.sent
                            THEN Append(httpLog, Request("GET", "memberOf",
                                                         Bearer(t.token), t.token))
                            ELSE httpLog
    /\ UNCHANGED <<envVars, authVars, patientVars, writerVars, soap, patient, scroll>>

(***************************************************************************)
(* store/patientSlice.ts: the Redux slice "patient".  patients is the      *)
(* array, index 0 first; the payload of setCurrentPatient is an integer.   *)
(***************************************************************************)
MaxPatients == 2    \* entries of the patients array
MaxEntry == 11      \* characters of one entry

PatientIds == {Str_empty, Str_mrn}
Indices == -1 .. MaxPatients + 1

\* String(v) for a string or undefined, as v + "..." converts v
StringOf(v) ==
    IF v = Undefined THEN <<"u", "n", "d", "e", "f", "i", "n", "e", "d">> ELSE v

initialState == [current |-> 0, patients |-> <<>>, currentPatient |-> Str_empty]

\* ps[i] of JavaScript: undefined outside the array
PatientAt(ps, i) ==
    IF i >= 0 /\ i < Len(ps) THEN ps[i + 1] ELSE Undefined

\* ps[n] = v for an index n >= 0; the array grows to hold n
SetPatientAt(ps, n, v) ==
    IF n < Len(ps) THEN [ps EXCEPT ![n + 1] = v]
    ELSE [i \in 1 .. n + 1 |-> IF i <= Len(ps) THEN ps[i]
                               ELSE IF i = n + 1 THEN v ELSE Undefined]

addPatient(state, payload) ==
    [patients |-> Append(state.patients, payload),
     current |-> Len(state.patients),
     currentPatient |-> payload]

clearPatients == initialState

\* a setCurrentPatient without the range check
setCurrentPatient_Unchecked(state, payload) ==
    [state EXCEPT !.current = payload,
                  !.currentPatient = PatientAt(state.patients, payload)]

setCurrentPatient(state, payload) ==
    IF payload < 0 \/ payload >= Len(state.patients)
    THEN state
    ELSE [state EXCEPT !.current = payload,
                       !.currentPatient = PatientAt(state.patients, payload)]

\* state.patients[state.current] += payload, then currentPatient is read back
addToCurrentPatient(state, payload) ==
    LET ps == SetPatientAt(state.patients, state.current,
                           StringOf(PatientAt(state.patients, state.current))
                               \o payload)
    IN [state EXCEPT !.patients = ps,
                     !.currentPatient = PatientAt(ps, state.current)]

AddPatient ==
    /\ Len(patient.patients) < MaxPatients
    /\ \E payload \in PatientIds : patient' = addPatient(patient, payload)
    /\ UNCHANGED <<envVars, authVars, patientVars, httpLog, writerVars, soap, util, scroll>>

ClearPatients ==
    /\ patient' = clearPatients
    /\ UNCHANGED <<envVars, authVars, patientVars, httpLog, writerVars, soap, util, scroll>>

SetCurrentPatient ==
    /\ \E payload \in Indices : patient' = setCurrentPatient(patient, payload)
    /\ UNCHANGED <<envVars, authVars, patientVars, httpLog, writerVars, soap, util, scroll>>

AddToCurrentPatient ==
    /\ \E payload \in PatientIds :
          /\ Len(StringOf(PatientAt(patient.patients, patient.current)) \o payload)
                <= MaxEntry
          /\ patient' = addToCurrentPatient(patient, payload)
    /\ UNCHANGED <<envVars, authVars, patientVars, httpLog, writerVars, soap, util, scroll>>

(***************************************************************************)
(* Initial states and specifications.                                      *)
(***************************************************************************)
ValidEnv ==
    [k \in RequiredVars |->
        IF k \in {"VITE_AZURE_AUTHORITY", "VITE_AZURE_REDIRECT_URI", "VITE_API_URL"}
        THEN Str_https ELSE Str_id]

\* everything but the environment, before anything has happened; a session
\* persisted in localStorage may already hold an account
InitRest ==
    /\ console = <<>>
    /\ accounts \in {0, 1}
    /\ inProgress = "none"
    /\ patientData = Null
    /\ searchId = <<>>
    /\ loading = FALSE
    /\ error = ""
    /\ showSearch = TRUE
    /\ fp = IdleCall
    /\ httpLog = <<>>
    /\ wt = IdleTask
    /\ calls = <<>>
    /\ util = IdleUtil
    /\ patient = initialState

\* the application once main.tsx has loaded with a valid environment
InitRunning ==
    /\ env = ValidEnv
    /\ boot = "running"
    /\ InitRest
    /\ configError = IF accounts = 0 THEN LoginMountError(env) ELSE ""

Init ==
    /\ InitRunning
    /\ PROD = FALSE
    /\ soap = UnmountedSoap
    /\ scroll = RestingScroll

AppNext ==
    \/ HandleLogin
    \/ LoginPopupSettles
    \/ HandleLogout
    \/ LogoutPopupSettles
    \/ SetSearchId
    \/ HandleSearch
    \/ FetchPatientToken
    \/ FetchPatientResponse
    \/ FetchPatientJson
    \/ HandleSwitchPatient

WriterNext(cap) ==
    \/ StartWritingTask
    \/ WriterToken
    \/ WriterResponse(cap)
    \/ WriterLoginPopup
    \/ WriterNewToken
    \/ WriterRead

Next == AppNext

\* the application: login, logout and the Patient view
Spec == Init /\ [][Next]_vars

\* the application when every fetchPatient call in flight settles
SpecSettling ==
    /\ Init /\ [][Next]_vars
    /\ WF_vars(FetchPatientToken)
    /\ WF_vars(FetchPatientResponse)
    /\ WF_vars(FetchPatientJson)

SearchNext ==
    \/ SetSearchId
    \/ HandleSearch
    \/ FetchPatientToken
    \/ FetchPatientResponse
    \/ FetchPatientJson
    \/ HandleSwitchPatient

\* every operation that sends requests to the backend: the patient search
\* and the writer task, side by side; the responses to the writer task have
\* empty bodies here, since only the requests matter
SpecHttp == Init /\ [][SearchNext \/ WriterNext(0)]_vars

\* the writer task alone, with longer response bodies
SpecWriter == Init /\ [][WriterNext(MaxBody)]_vars

\* the MSAL logger callback, in a production and in a development build
InitLogger ==
    /\ InitRunning
    /\ PROD \in BOOLEAN
    /\ soap = UnmountedSoap
    /\ scroll = RestingScroll

SpecLogger == InitLogger /\ [][LoggerCallback]_vars

\* module load under every environment
InitEnv ==
    /\ env \in [RequiredVars -> EnvValues]
    /\ \A k \in OtherVars : env[k] \in {Undefined, Str_empty, Str_https}
    /\ PROD = FALSE
    /\ boot = "loading"
    /\ InitRest
    /\ configError = ""
    /\ soap = UnmountedSoap
    /\ scroll = RestingScroll

EnvNext == Boot \/ HandleLogin \/ LoginPopupSettles

SpecEnv == InitEnv /\ [][EnvNext]_vars

\* the PatientSOAP component under every rounds input
InitSoap ==
    /\ InitRunning
    /\ PROD = FALSE
    /\ accounts = 1
    /\ \E r \in RoundsInputs : soap = [UnmountedSoap EXCEPT !.rounds = r]
    /\ scroll = RestingScroll

SoapNext ==
    \/ SoapMount
    \/ SoapEffects
    \/ SoapSelectRound
    \/ SoapToggleRole
    \/ SoapToggleAllRoles

SpecSoap == InitSoap /\ [][SoapNext]_vars

\* the utility functions of store/index.ts under every answer of MSAL
UtilNext ==
    \/ GetAuthTokenCall
    \/ CheckUserGroupMembershipCall

\* a running application under every setting of the two group ids
InitUtil ==
    /\ env \in [RequiredVars -> EnvValues]
    /\ \A k \in RequiredVars \ {"VITE_CLINICAL_STAFF_GROUP_ID", "VITE_ADMIN_GROUP_ID"} :
          env[k] = ValidEnv[k]
    /\ boot = "running"
    /\ InitRest
    /\ configError = IF accounts = 0 THEN LoginMountError(env) ELSE ""
    /\ PROD = FALSE
    /\ soap = UnmountedSoap
    /\ scroll = RestingScroll

SpecUtil == InitUtil /\ [][UtilNext]_vars

\* the Redux store under every sequence of the slice's actions
StoreNext ==
    \/ AddPatient
    \/ ClearPatients
    \/ SetCurrentPatient
    \/ AddToCurrentPatient

SpecStore == Init /\ [][StoreNext]_vars

\* a PatientSOAP component, with rounds or without, under every layout of
\* its sections and every sequence of scroll positions
ScrollNext ==
    \/ SoapMount
    \/ SoapEffects
    \/ ScrollEffects
    \/ ScrollEvent

InitScroll ==
    /\ InitRunning
    /\ PROD = FALSE
    /\ accounts = 1
    /\ \E r \in {VNull, VObj([plan |-> VStr("text")])} :
          soap = [UnmountedSoap EXCEPT !.rounds = r]
    /\ \E heights \in [soapKeys -> {MinSectionHeight, TallSection}], refs \in SUBSET soapKeys :
          scroll = [RestingScroll EXCEPT !.heights = heights, !.refs = refs]

SpecScroll == InitScroll /\ [][ScrollNext]_vars

(***************************************************************************)
(* The claims.                                                             *)
(***************************************************************************)

\* C1 (Spec): the patient search and record view (Patient, UserProfile) is
\* rendered only while the user is authenticated, a search of the mounted
\* Patient view is in flight only then, and an unauthenticated user sees the
\* login screen and nothing else.
C1_AuthenticatedOnly ==
    /\ (Rendered \cap {"Patient", "UserProfile"} # {}) => isAuthenticated
    /\ (fp.live /\ fp.pc # "idle") => isAuthenticated
    /\ loading => isAuthenticated
    /\ ~isAuthenticated => Rendered = {"LoginComponent"}

\* a user who searched for a patient, logged out and is back on the login screen
C1_Witness ==
    /\ ~isAuthenticated
    /\ Len(httpLog) > 0
    /\ Rendered = {"LoginComponent"}

\* a successful check of the user's group membership: a request to the Graph
\* memberOf endpoint among the first n requests
MembershipChecked(n) ==
    \E j \in 1 .. n : httpLog[j].api = "memberOf"

\* C2 (Spec): no patient record is requested by fetchPatient, and no login
\* completes into the authenticated view, unless the user's membership in an
\* authorized security group has been checked before.
C2_GroupValidated ==
    /\ [](\A i \in 1 .. Len(httpLog) :
             httpLog[i].api = "patient" => MembershipChecked(i - 1))
    /\ [][(inProgress = "login" /\ ~isAuthenticated /\ isAuthenticated')
             => MembershipChecked(Len(httpLog))']_vars

\* C3 (SpecHttp): every request sent to the backend by fetchPatient or by
\* startWritingTask, a retry after a 401 included, carries the header
\* Authorization: Bearer <token> whenever getAuthToken returned a token for it.
C3_RequestsCarryToken ==
    \A i \in 1 .. Len(httpLog) :
        httpLog[i].token # Null =>
            httpLog[i].Authorization = Bearer(httpLog[i].token)

\* the writer task retried after a 401 with a token other than the first, and
\* a patient search sent its request
C3_Witness ==
    /\ wt.retries > 0
    /\ \E i \in 1 .. Len(httpLog), j \in 1 .. Len(httpLog) :
          /\ i < j
          /\ httpLog[i].api = "writer" /\ httpLog[j].api = "writer"
          /\ httpLog[i].token # httpLog[j].token
          /\ httpLog[j].token # Null
    /\ \E i \in 1 .. Len(httpLog) : httpLog[i].api = "patient"

\* the screen is a login or search screen the user can work with
UsableScreen ==
    \/ "Patient" \in Rendered
    \/ "LoginComponent" \in Rendered /\ configError = ""

\* C4 (SpecEnv): for each REQUIRED environment variable, starting the
\* application with that variable unset ends in an error state, not in a
\* usable login or search screen.
C4_MissingVarIsError ==
    boot # "loading" =>
        \A k \in RequiredVars : env[k] = Undefined => ~UsableScreen

\* C5 (SpecLogger): the MSAL logger callback writes nothing when containsPii
\* is true, at any level and in either build; in a production build it writes
\* only at levels Error (0) and Warning (1).
C5_NoPiiInLogs ==
    \A i \in 1 .. Len(console) :
        /\ console[i].containsPii => console[i].wrote = <<>>
        /\ (PROD /\ console[i].wrote # <<>>) => console[i].level \in {0, 1}

\* a production build that dropped an Error-level PII message and an Info
\* message, and wrote a Warning
C5_Witness ==
    /\ PROD
    /\ \E i \in 1 .. Len(console) : console[i].containsPii /\ console[i].level = 0
    /\ \E i \in 1 .. Len(console) : ~console[i].containsPii /\ console[i].level = 2
    /\ \E i \in 1 .. Len(console) : console[i].wrote = <<"warn">>

\* the non-empty lines of the stream in arrival order: chunk by chunk, and
\* within a chunk in the order of the text
RECURSIVE NonEmpty(_)
NonEmpty(parts) ==
    IF parts = <<>> THEN <<>>
    ELSE (IF Trim(Head(parts)) = <<>> THEN <<>> ELSE <<Trim(Head(parts))>>)
           \o NonEmpty(Tail(parts))

RECURSIVE StreamLines(_)
StreamLines(chunks) ==
    IF chunks = <<>> THEN <<>>
    ELSE NonEmpty(Split(Head(chunks))) \o StreamLines(Tail(chunks))

\* the lines processed: those before the first that is not valid JSON
Processed(lines) ==
    LET ok == {k \in 0 .. Len(lines) :
                  \A i \in 1 .. k : JSONparse(lines[i]) # Throw}
    IN SubSeq(lines, 1, CHOOSE k \in ok : \A j \in ok : j <= k)

IsMessage(c) == c.fn = "addMessage" /\ c.type # "error"
IsCallback(c) == c.fn \in {"createArticle", "addToArticle"}

\* C6 (SpecWriter): the addMessage calls of startWritingTask are in the order
\* in which the non-empty lines arrive, across chunks and within a chunk; each
\* processed line yields exactly one addMessage call, and the callback for a
\* line comes right after its addMessage, before anything of a later line.
C6_ArrivalOrder ==
    LET lines == Processed(StreamLines(wt.received))
        messages == SelectSeq(calls, IsMessage)
    IN /\ Len(messages) = Len(lines)
       /\ \A i \in 1 .. Len(lines) : messages[i] = JSONparse(lines[i])
       /\ \A i \in 1 .. Len(calls) :
             IsCallback(calls[i]) =>
                /\ i > 1
                /\ IsMessage(calls[i - 1])
                /\ calls[i].fn = "createArticle" <=> calls[i - 1].type = "writer"
       /\ \A i \in 1 .. Len(calls) :
             calls[i].type = "error" => i = Len(calls)

\* a message from the first chunk, then a partial message and another
\* message from the two lines of the second chunk
C6_Witness ==
    /\ Len(wt.received) = 2
    /\ Len(Split(wt.received[2])) = 2
    /\ SelectSeq(calls, IsMessage) = <<Msg_Plain, Msg_Partial, Msg_Plain>>

\* C7 (Spec): after a failed patient search the Patient view has a non-empty
\* error message, patientData null and loading false, and shows the search
\* form with its button enabled, so that another search can be submitted.
C7_FailureRecovery ==
    (fp.live /\ fp.outcome = "failed") =>
        /\ error # ""
        /\ patientData = Null
        /\ ~loading
        /\ showSearch
        /\ "Patient" \in Rendered
        /\ fp.pc = "idle"

\* a second search that failed, with a status the server answered
C7_Witness ==
    /\ fp.live /\ fp.outcome = "failed"
    /\ fp.thrown = Msg_Status(500)
    /\ Len(httpLog) = 2

soapEntries == currentEntries(soap.normalized, soap.selectedRound)

Displayed(sectionKey) ==
    renderSectionContent(sectionKey, soapEntries, soapRoles, soap.selectedRoles)

Occurs(e, entries) == \E i \in 1 .. Len(entries) : entries[i] = e

HasRole(e) == TruthyV(Field(e, "role"))

\* every entry with a role shown in a section has a selected role
ShownRolesSelected ==
    \A sectionKey \in soapKeys :
        \A i \in 1 .. Len(Displayed(sectionKey)) :
            HasRole(Displayed(sectionKey)[i]) =>
                Field(Displayed(sectionKey)[i], "role").s \in soap.selectedRoles

\* every entry without a role is shown in each section it has content for
RolelessShown ==
    \A sectionKey \in soapKeys :
        \A i \in 1 .. Len(soapEntries) :
            (~HasRole(soapEntries[i]) /\ TruthyV(Field(soapEntries[i], sectionKey)))
               => Occurs(soapEntries[i], Displayed(sectionKey))

Legacy(o) ==
    /\ DOMAIN o \cap soapKeys # {}
    /\ \A k \in DOMAIN o : ~AllDigits(k)

\* C9 (SpecSoap): the normalized model maps each round key to an array; a
\* legacy object becomes exactly { '1': [that object] }; otherwise a key with
\* an array keeps the array, a key with a single object maps to a one-element
\* array, and a key with a falsy value is omitted.
C9_Normalization ==
    soap.phase # "unmounted" =>
        LET n == soap.normalized
            r == soap.rounds
        IN /\ \A k \in DOMAIN n : DOMAIN n[k] = 1 .. Len(n[k])
           /\ ~TruthyV(r) => DOMAIN n = {}
           /\ (TruthyV(r) /\ Legacy(r.obj)) => n = [k \in {"1"} |-> <<r>>]
           /\ (TruthyV(r) /\ ~Legacy(r.obj)) =>
                 /\ DOMAIN n \subseteq DOMAIN r.obj
                 /\ \A k \in DOMAIN r.obj :
                       /\ r.obj[k].kind = "array" =>
                             (k \in DOMAIN n /\ n[k] = r.obj[k].items)
                       /\ r.obj[k].kind = "object" =>
                             (k \in DOMAIN n /\ n[k] = <<r.obj[k]>>)
                       /\ ~TruthyV(r.obj[k]) => k \notin DOMAIN n

\* an object with a SOAP field and all-digit keys, which is not legacy: round 1
\* keeps its array, round 2 wraps its single object, the field is wrapped too
C9_Witness ==
    /\ soap.phase # "unmounted"
    /\ TruthyV(soap.rounds)
    /\ DOMAIN soap.rounds.obj = {"1", "2", "subjective"}
    /\ DOMAIN soap.normalized = {"1", "2", "subjective"}
    /\ Len(soap.normalized["1"]) = 3
    /\ soap.normalized["2"] = <<VObj(E_nurse)>>

\* C10 (Spec): fetchPatient sends no request without a token: when
\* getAuthToken returns null it throws 'Authentication token not available.
\* Please log in again.' and no fetch is made.
C10_NoRequestWithoutToken ==
    /\ \A i \in 1 .. Len(httpLog) :
          httpLog[i].api = "patient" => httpLog[i].token \in Tokens
    /\ fp.token = Null =>
          /\ ~fp.sent
          /\ fp.pc = "idle"
          /\ fp.thrown = Msg_NoToken

\* a search that got no token: it ended with the authentication error shown
\* and without a request
C10_Witness ==
    /\ fp.live /\ fp.token = Null /\ fp.outcome = "failed"
    /\ httpLog = <<>>
    /\ error = "Authentication failed. Please refresh the page and log in again."

\* C11 (SpecUtil): getAuthToken never rejects and resolves to an access token
\* or null; without an MSAL instance or without an account it resolves to
\* null and attempts no acquisition; it attempts acquireTokenPopup only after
\* acquireTokenSilent, and only when that one failed.
C11_GetAuthTokenTotal ==
    util.fn = "getAuthToken" =>
        /\ util.settled = "resolved"
        /\ util.result \in Tokens \cup {Null}
        /\ (~util.instance \/ util.nAccounts = 0) =>
              (util.result = Null /\ util.attempts = <<>>)
        /\ (\E i \in 1 .. Len(util.attempts) : util.attempts[i] = "acquireTokenPopup") =>
              /\ util.attempts = <<"acquireTokenSilent", "acquireTokenPopup">>
              /\ util.silent \notin Tokens
        /\ (util.silent \in Tokens /\ util.instance /\ util.nAccounts > 0) =>
              util.result = util.silent

\* a call whose silent acquisition and popup both failed: it resolved to null
C11_Witness ==
    /\ util.fn = "getAuthToken"
    /\ util.instance /\ util.nAccounts = 1
    /\ util.silent \notin Tokens /\ util.popup \notin Tokens
    /\ util.settled = "resolved" /\ util.result = Null
    /\ Len(util.attempts) = 2

\* the configured group ids that are not empty
ConfiguredGroups == {env[k] : k \in GroupVars} \ {Undefined, Str_empty}

\* the ids of the groups the memberOf response listed
ReturnedIds ==
    IF util.body.kind = "list"
    THEN {util.body.groups[i] : i \in 1 .. Len(util.body.groups)}
    ELSE {}

\* the conditions under which membership may be affirmed
MembershipEstablished ==
    /\ util.token \in Tokens
    /\ util.sent /\ ResponseOk(util.status)
    /\ ReturnedIds \cap ConfiguredGroups # {}

\* C12 (SpecUtil): checkUserGroupMembership never rejects and resolves to a
\* boolean; it resolves to true only if a token was obtained, the memberOf
\* request returned OK and a returned group id equals a configured non-empty
\* group id, and it does so whenever moreover the response lists no null
\* entry; in every other case it resolves to false.
C12_FailsClosed ==
    util.fn = "checkUserGroupMembership" =>
        /\ util.settled = "resolved"
        /\ util.result \in BOOLEAN
        /\ util.result = TRUE => MembershipEstablished
        /\ (MembershipEstablished /\ Null \notin ReturnedIds) => util.result = TRUE
        /\ ConfiguredGroups = {} => util.result = FALSE
        /\ util.token = Null => ~util.sent

\* with no group id configured, a response that lists a group without id and
\* one with an empty id was answered false
C12_Witness ==
    /\ util.fn = "checkUserGroupMembership"
    /\ env["VITE_CLINICAL_STAFF_GROUP_ID"] = Undefined
    /\ env["VITE_ADMIN_GROUP_ID"] = Str_empty
    /\ util.status = 200
    /\ util.body = [kind |-> "list", groups |-> <<Undefined, Str_empty>>]
    /\ util.result = FALSE

\* the requests sent to the writer endpoint
WriterRequests == SelectSeq(httpLog, LAMBDA r : r.api = "writer")

IsReauthFailed(c) == c = Msg_ReauthFailed

\* C13 (SpecWriter): after a 401 the request is re-issued only from the step
\* in which getAuthToken, called after a successful login popup, gave a
\* non-null token, and the retry carries that token; when the popup fails
\* the task ends with the one message 'Authentication failed. Please refresh
\* the page and try again.', sends nothing more and has read nothing.
C13_Reauth401 ==
    /\ []((\E i \in 1 .. Len(calls) : IsReauthFailed(calls[i])) =>
             /\ Len(SelectSeq(calls, IsReauthFailed)) = 1
             /\ calls[Len(calls)] = Msg_ReauthFailed
             /\ wt.pc = "done"
             /\ wt.received = <<>>)
    /\ [][(Len(httpLog') > Len(httpLog) /\ Len(WriterRequests) > 0) =>
             /\ wt.pc = "retoken"
             /\ httpLog' = Append(httpLog, httpLog'[Len(httpLog')])
             /\ httpLog'[Len(httpLog')].token \in Tokens
             /\ httpLog'[Len(httpLog')].token = wt'.token
             /\ httpLog'[Len(httpLog')].Authorization = Bearer(wt'.token)]_vars
    /\ [][wt.pc = "relogin" =>
             \/ wt'.pc = "retoken" /\ UNCHANGED <<httpLog, calls>>
             \/ /\ wt'.pc = "done"
                /\ calls' = Append(calls, Msg_ReauthFailed)
                /\ UNCHANGED httpLog]_vars
    /\ [][(wt.pc = "retoken" /\ Len(httpLog') = Len(httpLog)) =>
             wt'.pc \in {"reading", "done"}]_vars

\* a retry with a new token was answered 401 again and the second login
\* popup failed: two requests, one error message, nothing read
C13_Witness ==
    /\ wt.pc = "done"
    /\ calls = <<Msg_ReauthFailed>>
    /\ Len(WriterRequests) = 2
    /\ WriterRequests[1].token # WriterRequests[2].token
    /\ WriterRequests[2].Authorization = Bearer(WriterRequests[2].token)
    /\ wt.received = <<>>

\* C14 (SpecWriter): one invocation of startWritingTask re-issues its request
\* a bounded number of times: its retries stay below the number of 401
\* answers the server is able to give.
C14_BoundedRetries ==
    wt.retries < MaxRetries

IsApiFailed(c) == c = Msg_ApiFailed

\* the lines received so far hold one that is not valid JSON
BadLineReceived ==
    \E i \in 1 .. Len(StreamLines(wt.received)) :
        JSONparse(StreamLines(wt.received)[i]) = Throw

\* C15 (SpecWriter): an exception while calling or reading the writer
\* endpoint delivers the message 'API call failed. Please check your
\* connection and try again.' exactly once, as the last call of the task,
\* which then has stopped; a line that is not valid JSON is such an
\* exception, and of the lines received only those before it were delivered;
\* the promise startWritingTask returned is never rejected.
C15_OneErrorThenStop ==
    /\ Len(SelectSeq(calls, IsApiFailed)) <= 1
    /\ (\E i \in 1 .. Len(calls) : IsApiFailed(calls[i])) =>
          (calls[Len(calls)] = Msg_ApiFailed /\ wt.pc = "done")
    /\ BadLineReceived =>
          /\ calls # <<>> /\ calls[Len(calls)] = Msg_ApiFailed
          /\ Len(SelectSeq(calls, IsMessage))
                = Len(Processed(StreamLines(wt.received)))
          /\ Len(Processed(StreamLines(wt.received)))
                < Len(StreamLines(wt.received))
    /\ wt.promise # "rejected"
    /\ wt.pc \notin {"idle", "token"} => wt.promise = "resolved"

\* a message, then a chunk whose first line is half a message and whose
\* second line is a whole one: the first message, the error, and no more
C15_Witness ==
    /\ wt.received = << <<"M">>, <<"W1", "\n", "P">> >>
    /\ calls = <<Msg_Plain, Msg_ApiFailed>>
    /\ wt.pc = "done"
    /\ wt.promise = "resolved"

\* the text of the body received so far, the chunks put together
RECURSIVE Flatten(_)
Flatten(chunks) ==
    IF chunks = <<>> THEN <<>> ELSE Head(chunks) \o Flatten(Tail(chunks))

\* the lines of a text that a newline ends, and what follows the last newline
CompleteLines(text) == SubSeq(Split(text), 1, Len(Split(text)) - 1)
OpenLine(text) == Split(text)[Len(Split(text))]

\* the start of a body made of newline-terminated JSON messages: every line
\* a newline ends is a message, and what follows is the start of one
StartsMessages(text) ==
    /\ \A i \in 1 .. Len(CompleteLines(text)) :
          JSONparse(CompleteLines(text)[i]) # Throw
    /\ RemoveWhite(OpenLine(text)) \in
          {<<>>, <<"M">>, <<"P">>, <<"W1">>, <<"W1", "W2">>}

IsPrefix(a, b) == Len(a) <= Len(b) /\ SubSeq(b, 1, Len(a)) = a

\* C16 (SpecWriter): the calls depend on the text of the body only, not on
\* its chunks: while the text received is the start of a body of
\* newline-terminated JSON messages, no line of a chunk fails to parse, and
\* the calls made for the lines the text completes are those of the text
\* taken as one chunk.
C16_ChunkingIndependent ==
    StartsMessages(Flatten(wt.received)) =>
        /\ ~BadLineReceived
        /\ IsPrefix(ProcessParts(CompleteLines(Flatten(wt.received)), <<>>).calls,
                    SelectSeq(calls, LAMBDA c : ~IsApiFailed(c)))

\* a fetchPatient call of the mounted Patient view is outstanding
Outstanding == fp.live /\ fp.pc # "idle"

\* C17 (Spec): a submit with an empty or whitespace-only MRN sets the error
\* 'Please enter an MRN.', clears patientData, calls fetchPatient not at all
\* and leaves loading false; a fetchPatient call starts only from a
\* non-blank MRN and is passed the MRN trimmed.
C17_BlankMrn ==
    /\ []((fp.live /\ fp.outcome = "blank") =>
             /\ error = "Please enter an MRN."
             /\ patientData = Null
             /\ ~loading
             /\ fp.pc = "idle" /\ ~fp.sent)
    /\ [][(fp'.outcome = "blank" /\ fp'.live /\ fp' # fp) =>
             (Trim(searchId) = <<>> /\ UNCHANGED <<httpLog, loading>>)]_vars
    /\ [][(fp.pc = "idle" /\ fp'.pc # "idle") =>
             /\ Trim(searchId) # <<>>
             /\ fp'.id = Trim(searchId)
             /\ fp'.pc = "token"]_vars
    /\ [][(HandleSearch /\ Trim(searchId) = <<>>) =>
             /\ error' = "Please enter an MRN."
             /\ patientData' = Null
             /\ fp'.outcome = "blank"
             /\ UNCHANGED <<httpLog, loading>>]_vars

\* after a search that failed, a whitespace-only MRN was submitted
C17_Witness ==
    /\ fp.live /\ fp.outcome = "blank"
    /\ searchId = Str_blank
    /\ Len(httpLog) = 1
    /\ error = "Please enter an MRN."

\* C18 (SpecSettling): in the mounted Patient view loading is true exactly
\* while a fetchPatient call is outstanding; it becomes true when a search
\* with a non-blank MRN starts, and when the fetch settles, successfully or
\* not, loading becomes false again.
C18_LoadingWhileFetching ==
    /\ [](loading <=> Outstanding)
    /\ [][(~loading /\ loading') => (Trim(searchId) # <<>> /\ fp'.pc = "token")]_vars
    /\ [][(Outstanding /\ fp'.pc = "idle") => ~loading']_vars
    /\ (loading ~> ~loading)

\* a search that succeeded after one that failed: loading is false again
C18_Witness ==
    /\ fp.live /\ fp.outcome = "ok"
    /\ ~loading
    /\ Len(httpLog) = 2
    /\ patientData = JPatient

\* C19 (Spec): while loading is true the search cannot be submitted and the
\* patient cannot be switched; a call is outstanding only while loading, and
\* the response of a call reaches the view in the state its own search left.
C19_OneFetchInFlight ==
    /\ [](loading => (~ENABLED HandleSearch /\ ~ENABLED HandleSwitchPatient))
    /\ [](Outstanding => (loading /\ patientData = Null /\ error = "" /\ showSearch))
    /\ [][(Outstanding /\ fp'.pc = "idle" /\ fp'.live) =>
             /\ fp'.id = fp.id
             /\ loading /\ patientData = Null /\ error = "" /\ showSearch]_vars
    /\ [][(loading /\ loading') =>
             (UNCHANGED <<patientData, error, showSearch>> /\ fp'.id = fp.id)]_vars

\* a search in flight while the user has typed another MRN into the form
C19_Witness ==
    /\ loading /\ fp.pc = "http"
    /\ fp.id = Str_mrn
    /\ searchId = Str_blank
    /\ Len(httpLog) = 2

\* C20 (Spec): when the login popup fails, the login screen shows the error
\* 'Login failed. Please try again or contact support.': the step in which
\* loginPopup settles without signing the user in sets configError to it.
C20_LoginFailureShown ==
    [][(inProgress = "login" /\ inProgress' = "none" /\ ~isAuthenticated') =>
          configError' = "Login failed. Please try again or contact support."]_vars

Overlap(sc, i) ==
    LET from == MathMax(OffsetTop(sc.heights, i), sc.scrollTop)
        to == MathMin(OffsetTop(sc.heights, i) + sc.heights[tabs[i]],
                      sc.scrollTop + ContainerHeight)
    IN IF to > from THEN to - from ELSE 0

\* the sections the component holds an element of
Measured(sc) == {i \in 1 .. Len(tabs) : tabs[i] \in sc.refs}

\* section i shows a larger fraction of its height than section j
LargerFraction(sc, i, j) ==
    Overlap(sc, i) * sc.heights[tabs[j]] > Overlap(sc, j) * sc.heights[tabs[i]]

\* the tab the claim names for the scroll position of sc
SpyTab(sc) ==
    IF scrollHeight(sc.heights) - (sc.scrollTop + ContainerHeight) <= BottomMargin
    THEN "plan"
    ELSE IF \A i \in Measured(sc) : Overlap(sc, i) = 0
    THEN "subjective"
    ELSE tabs[CHOOSE i \in Measured(sc) :
                 /\ Overlap(sc, i) > 0
                 /\ \A j \in Measured(sc) :
                       /\ j < i => LargerFraction(sc, i, j)
                       /\ j > i => ~LargerFraction(sc, j, i)]

====
